---- MODULE Spec2Model ----
(***************************************************************************)
(* Model of utils/radix_calc/radix_calculator.py: the two formula          *)
(* functions calculate_radix and calculate_nodes_per_leaf, and main(),     *)
(* which enumerates spine x leaf x oversubscription ratio, accumulates one *)
(* row per triple in radix_df and then prints the table, the advisory      *)
(* notes and the head of the frame.                                        *)
(*                                                                         *)
(* Spec   : a run of main() over the catalog of the source, over catalogs  *)
(*          that differ from it in one non-positive field, and over the    *)
(*          adjustable leaf_uplink_ports ("Adjust as needed").             *)
(* SpecFn : a caller applying the two formula functions to arguments drawn *)
(*          from bounded sets.                                             *)
(***************************************************************************)
EXTENDS Integers, Sequences, FiniteSets, TLC

VARIABLES
    spine_configs,      \* main: dict of spine profiles, in insertion order
    leaf_configs,       \* main: dict of leaf profiles, in insertion order
    leaf_uplink_ports,  \* main: base uplink port count of a leaf
    pc,                 \* main: position of the run
    spine_idx,          \* main: position of the outer loop
    leaf_idx,           \* main: position of the middle loop
    ratio_idx,          \* main: position of the inner loop
    radix_df,           \* main: the result frame, a sequence of rows
    stdout,             \* what the run has printed so far
    error,              \* the exception that ended the run, or NoError
    call,               \* SpecFn: the last call of a formula function
    first_negative      \* SpecFn: {first value returned for uplink > leaf bandwidth}

vars == <<spine_configs, leaf_configs, leaf_uplink_ports, pc, spine_idx,
          leaf_idx, ratio_idx, radix_df, stdout, error, call, first_negative>>

main_vars == <<spine_configs, leaf_configs, leaf_uplink_ports, pc, spine_idx,
               leaf_idx, ratio_idx, radix_df, stdout, error>>

fn_vars == <<call, first_negative>>

(***************************************************************************)
(* Bounds of the model and constants of the program                        *)
(***************************************************************************)
MaxLeafUplinkPorts == 8     \* leaf_uplink_ports is drawn from 0..MaxLeafUplinkPorts
MaxSpinePorts == 150        \* calculate_radix: spine_ports in 0..MaxSpinePorts
MaxLeafSteps == 9           \* calculate_nodes_per_leaf: leaf bandwidth in steps
MaxUplinkSteps == 36        \* calculate_nodes_per_leaf: uplink bandwidth in steps

node_bandwidth == 200       \* NIC bandwidth of a compute node, Gbps
ReferenceUplinkPorts == 8   \* leaf_uplink_ports as the source sets it
HeadRows == 5               \* DataFrame.head() default

NoError == "none"
NoValue == "none"

(***************************************************************************)
(* Python integer arithmetic                                               *)
(***************************************************************************)
\* a // b for b # 0: the quotient rounded towards minus infinity.
PyFloorDiv(a, b) == IF b > 0 THEN a \div b ELSE (-a) \div (-b)

Returned(v) == [outcome |-> "returned", value |-> v, exception |-> NoError]
Raised(e) == [outcome |-> "raised", value |-> NoValue, exception |-> e]

(***************************************************************************)
(* The formula functions                                                   *)
(***************************************************************************)
calculate_radix_ceiling(spine_ports, leaf_uplink) ==
    IF leaf_uplink = 0
    THEN Raised("ZeroDivisionError")
    ELSE Returned(PyFloorDiv(spine_ports + leaf_uplink - 1, leaf_uplink))

calculate_radix_sentinel(spine_ports, leaf_uplink) ==
    IF leaf_uplink = 0
    THEN Returned(0)
    ELSE Returned(PyFloorDiv(spine_ports, leaf_uplink))

calculate_radix(spine_ports, leaf_uplink) ==
    IF leaf_uplink = 0
    THEN Raised("ZeroDivisionError")
    ELSE Returned(PyFloorDiv(spine_ports, leaf_uplink))

calculate_nodes_per_leaf_split(leaf_bandwidth, node_bw, uplink_bandwidth) ==
    IF node_bw = 0
    THEN Raised("ZeroDivisionError")
    ELSE Returned(PyFloorDiv(leaf_bandwidth, node_bw)
                  - PyFloorDiv(uplink_bandwidth, node_bw))

\* int() of an int is that int; the arguments here are always ints.
calculate_nodes_per_leaf(leaf_bandwidth, node_bw, uplink_bandwidth) ==
    LET available_bandwidth == leaf_bandwidth - uplink_bandwidth
    IN  IF node_bw = 0
        THEN Raised("ZeroDivisionError")
        ELSE Returned(PyFloorDiv(available_bandwidth, node_bw))

(***************************************************************************)
(* The catalog of main()                                                   *)
(***************************************************************************)
Spine(n, cards) ==
    [name |-> n, line_cards |-> cards, ports_per_card |-> 36, port_speed |-> 800]

ReferenceSpines ==
    << Spine("7804", 4), Spine("7808", 8), Spine("7812", 12), Spine("7816", 16) >>

ReferenceLeaves ==
    << [name |-> "7060X5", ports |-> 64, port_speed |-> 400, bandwidth |-> 25600],
       [name |-> "7060X6", ports |-> 64, port_speed |-> 800, bandwidth |-> 51200] >>

Ratios ==
    << [label |-> "1:1", divisor |-> 1],
       [label |-> "2:1", divisor |-> 2],
       [label |-> "4:1", divisor |-> 4] >>

Columns ==
    << "Leaf", "Spine", "Uplinks", "Workload Ports", "Oversubscription",
       "Max Radix", "Nodes per Leaf" >>

SpineFields == {"line_cards", "ports_per_card", "port_speed"}
LeafFields == {"ports", "port_speed", "bandwidth"}
NonPositiveValues == {-1, 0}

\* The catalogs a run is started on: the one of the source, and those that
\* differ from it in one field of one profile, set to a non-positive value.
Catalogs ==
    {[spines |-> ReferenceSpines, leaves |-> ReferenceLeaves]}
    \cup {[spines |-> [ReferenceSpines EXCEPT ![i][f] = v], leaves |-> ReferenceLeaves] :
            i \in DOMAIN ReferenceSpines, f \in SpineFields, v \in NonPositiveValues}
    \cup {[spines |-> ReferenceSpines, leaves |-> [ReferenceLeaves EXCEPT ![i][f] = v]] :
            i \in DOMAIN ReferenceLeaves, f \in LeafFields, v \in NonPositiveValues}

(***************************************************************************)
(* One iteration of the loop nest of main()                                *)
(***************************************************************************)
Uplinks_multiplied(base, divisor) == base * divisor

Uplinks(base, divisor) == PyFloorDiv(base, divisor)

ComputeRow_leaf_speed(spine, leaf, ratio, base) ==
    LET spine_ports == spine.line_cards * spine.ports_per_card
        uplinks == Uplinks(base, ratio.divisor)
        max_radix == calculate_radix(spine_ports, uplinks)
        uplink_bandwidth == uplinks * leaf.port_speed
        nodes_per_leaf ==
            calculate_nodes_per_leaf(leaf.bandwidth, node_bandwidth, uplink_bandwidth)
    IN  IF max_radix.outcome = "raised" THEN max_radix
        ELSE IF nodes_per_leaf.outcome = "raised" THEN nodes_per_leaf
        ELSE Returned([Leaf |-> leaf.name,
                       Spine |-> spine.name,
                       Uplinks |-> uplinks,
                       Workload_Ports |-> leaf.ports - uplinks,
                       Oversubscription |-> ratio.label,
                       Max_Radix |-> max_radix.value,
                       Nodes_per_Leaf |-> nodes_per_leaf.value])

\* The row of one (spine, leaf, ratio) triple, or the exception raised on the way.
ComputeRow(spine, leaf, ratio, base) ==
    LET spine_ports == spine.line_cards * spine.ports_per_card
        uplinks == Uplinks(base, ratio.divisor)
        max_radix == calculate_radix(spine_ports, uplinks)
        uplink_bandwidth == uplinks * spine.port_speed
        nodes_per_leaf ==
            calculate_nodes_per_leaf(leaf.bandwidth, node_bandwidth, uplink_bandwidth)
    IN  IF max_radix.outcome = "raised" THEN max_radix
        ELSE IF nodes_per_leaf.outcome = "raised" THEN nodes_per_leaf
        ELSE Returned([Leaf |-> leaf.name,
                       Spine |-> spine.name,
                       Uplinks |-> uplinks,
                       Workload_Ports |-> leaf.ports - uplinks,
                       Oversubscription |-> ratio.label,
                       Max_Radix |-> max_radix.value,
                       Nodes_per_Leaf |-> nodes_per_leaf.value])

Concat_prepend(df, row) == <<row>> \o df

\* pd.concat([radix_df, one-row frame], ignore_index=True)
Concat(df, row) == df \o <<row>>

\* The loop positions after the iteration at <<s, l, r>>; "exhausted" past the last one.
NextTriple_leaf_outermost(s, l, r) ==
    IF r < Len(Ratios) THEN [s |-> s, l |-> l, r |-> r + 1, exhausted |-> FALSE]
    ELSE IF s < Len(ReferenceSpines) THEN [s |-> s + 1, l |-> l, r |-> 1, exhausted |-> FALSE]
    ELSE IF l < Len(ReferenceLeaves) THEN [s |-> 1, l |-> l + 1, r |-> 1, exhausted |-> FALSE]
    ELSE [s |-> s, l |-> l, r |-> r, exhausted |-> TRUE]

NextTriple(s, l, r) ==
    IF r < Len(Ratios) THEN [s |-> s, l |-> l, r |-> r + 1, exhausted |-> FALSE]
    ELSE IF l < Len(ReferenceLeaves) THEN [s |-> s, l |-> l + 1, r |-> 1, exhausted |-> FALSE]
    ELSE IF s < Len(ReferenceSpines) THEN [s |-> s + 1, l |-> 1, r |-> 1, exhausted |-> FALSE]
    ELSE [s |-> s, l |-> l, r |-> r, exhausted |-> TRUE]

(***************************************************************************)
(* Rendering                                                               *)
(***************************************************************************)
Cells(row) ==
    << row.Leaf, row.Spine, row.Uplinks, row.Workload_Ports, row.Oversubscription,
       row.Max_Radix, row.Nodes_per_Leaf >>

Text(s) == [kind |-> "text", text |-> s, headers |-> <<>>, body |-> <<>>]

\* tabulate(df, headers='keys', tablefmt="fancy_grid", showindex=False)
Tabulate(df) ==
    [kind |-> "table", text |-> "", headers |-> Columns,
     body |-> [p \in 1..Len(df) |-> Cells(df[p])]]

Min(a, b) == IF a < b THEN a ELSE b

\* str(df.head()): the first rows, each behind its index
DataFrameHead(df) ==
    [kind |-> "frame", text |-> "", headers |-> Columns,
     body |-> [p \in 1..Min(Len(df), HeadRows) |-> <<p - 1>> \o Cells(df[p])]]

(***************************************************************************)
(* main()                                                                  *)
(***************************************************************************)
MainInit ==
    /\ \E c \in Catalogs :
          /\ spine_configs = c.spines
          /\ leaf_configs = c.leaves
    /\ leaf_uplink_ports \in 0..MaxLeafUplinkPorts
    /\ pc = "loop"
    /\ spine_idx = 1
    /\ leaf_idx = 1
    /\ ratio_idx = 1
    /\ radix_df = <<>>
    /\ stdout = <<>>
    /\ error = NoError

FnIdle ==
    /\ call = [fn |-> "none", args |-> <<>>, result |-> Returned(NoValue)]
    /\ first_negative = {}

Init == MainInit /\ FnIdle

\* The body of the innermost loop, for the triple the loops stand at.
IterateTriple ==
    /\ pc = "loop"
    /\ LET res == ComputeRow(spine_configs[spine_idx], leaf_configs[leaf_idx],
                             Ratios[ratio_idx], leaf_uplink_ports)
           nxt == NextTriple(spine_idx, leaf_idx, ratio_idx)
       IN  IF res.outcome = "raised"
           THEN /\ pc' = "error"
                /\ error' = res.exception
                /\ UNCHANGED <<spine_idx, leaf_idx, ratio_idx, radix_df>>
           ELSE /\ radix_df' = Concat(radix_df, res.value)
                /\ spine_idx' = nxt.s
                /\ leaf_idx' = nxt.l
                /\ ratio_idx' = nxt.r
                /\ pc' = IF nxt.exhausted THEN "print_table" ELSE "loop"
                /\ error' = error
    /\ UNCHANGED <<spine_configs, leaf_configs, leaf_uplink_ports, stdout, fn_vars>>

PrintTable ==
    /\ pc = "print_table"
    /\ stdout' = Append(stdout, Tabulate(radix_df))
    /\ pc' = "print_considerations"
    /\ UNCHANGED <<spine_configs, leaf_configs, leaf_uplink_ports, spine_idx,
                   leaf_idx, ratio_idx, radix_df, error, fn_vars>>

PrintConsiderations ==
    /\ pc = "print_considerations"
    /\ stdout' = stdout \o << Text("Considerations:"),
                              Text("Adjust leaf_uplink_ports"),
                              Text("Ensure spine bandwidth") >>
    /\ pc' = "print_head"
    /\ UNCHANGED <<spine_configs, leaf_configs, leaf_uplink_ports, spine_idx,
                   leaf_idx, ratio_idx, radix_df, error, fn_vars>>

PrintHead ==
    /\ pc = "print_head"
    /\ stdout' = stdout \o << Text("Radix DataFrame:"), DataFrameHead(radix_df) >>
    /\ pc' = "done"
    /\ UNCHANGED <<spine_configs, leaf_configs, leaf_uplink_ports, spine_idx,
                   leaf_idx, ratio_idx, radix_df, error, fn_vars>>

Next == IterateTriple \/ PrintTable \/ PrintConsiderations \/ PrintHead

Spec == Init /\ [][Next]_vars

(***************************************************************************)
(* A caller of the formula functions                                       *)
(***************************************************************************)
SpinePortCounts == 0..MaxSpinePorts
UplinkPortCounts == 0..MaxLeafUplinkPorts
\* leaf bandwidths in steps of 3200 Gbps (25600 is 8 steps), uplink bandwidths in
\* steps of one 800 Gbps spine port (uplinks * port_speed)
LeafBandwidths == {k * 3200 : k \in 0..MaxLeafSteps}
UplinkBandwidths == {k * 800 : k \in 0..MaxUplinkSteps}
NodeBandwidths == {0, 7, node_bandwidth, 300}

InitFn ==
    /\ spine_configs = ReferenceSpines
    /\ leaf_configs = ReferenceLeaves
    /\ leaf_uplink_ports = ReferenceUplinkPorts
    /\ pc = "loop"
    /\ spine_idx = 1
    /\ leaf_idx = 1
    /\ ratio_idx = 1
    /\ radix_df = <<>>
    /\ stdout = <<>>
    /\ error = NoError
    /\ FnIdle

CallRadix ==
    /\ call.fn = "none"
    /\ \E a \in SpinePortCounts, b \in UplinkPortCounts :
          call' = [fn |-> "calculate_radix", args |-> <<a, b>>,
                   result |-> calculate_radix(a, b)]
    /\ UNCHANGED <<first_negative, main_vars>>

CallNodesPerLeaf ==
    /\ call.fn = "none"
    /\ \E L \in LeafBandwidths, N \in NodeBandwidths, U \in UplinkBandwidths :
          LET res == calculate_nodes_per_leaf(L, N, U)
          IN  /\ call' = [fn |-> "calculate_nodes_per_leaf", args |-> <<L, N, U>>,
                          result |-> res]
              /\ first_negative' =
                    IF U > L /\ res.outcome = "returned" /\ first_negative = {}
                    THEN {res.value}
                    ELSE first_negative
    /\ UNCHANGED main_vars

\* The caller takes the result and is ready for its next call.
ReturnToCaller ==
    /\ call.fn # "none"
    /\ call' = [fn |-> "none", args |-> <<>>, result |-> Returned(NoValue)]
    /\ UNCHANGED <<first_negative, main_vars>>

NextFn == CallRadix \/ CallNodesPerLeaf \/ ReturnToCaller

SpecFn == InitFn /\ [][NextFn]_vars

(***************************************************************************)
(* Properties                                                              *)
(***************************************************************************)
\* q is the floor of a / b, stated without division
IsFloorQuotient(q, a, b) == b > 0 /\ q * b <= a /\ a < (q + 1) * b

IsReference ==
    /\ spine_configs = ReferenceSpines
    /\ leaf_configs = ReferenceLeaves
    /\ leaf_uplink_ports = ReferenceUplinkPorts

EnumerationCompleted ==
    pc \in {"print_table", "print_considerations", "print_head", "done"}

\* C1: the row emitted by the loop body for the triple (spine, leaf, ratio) has
\* Uplinks = base // divisor (8 // divisor in the source's configuration),
\* Max Radix = floor(line_cards * ports_per_card / Uplinks), Nodes per Leaf =
\* floor((leaf bandwidth - Uplinks * SPINE port speed) / 200), Workload Ports =
\* leaf ports - Uplinks, and the names of that leaf, spine and ratio; the triple
\* (7804, 7060X5, 1:1) of the source's catalog gives 8, 18, 56 and 96.
C1_RowOfTriple ==
    [][(pc = "loop" /\ pc' # "error") =>
        LET spine == spine_configs[spine_idx]
            leaf == leaf_configs[leaf_idx]
            ratio == Ratios[ratio_idx]
            row == radix_df'[Len(radix_df')]
        IN  /\ Len(radix_df') > 0
            /\ row.Leaf = leaf.name
            /\ row.Spine = spine.name
            /\ row.Oversubscription = ratio.label
            /\ IsFloorQuotient(row.Uplinks, leaf_uplink_ports, ratio.divisor)
            /\ (leaf_uplink_ports = 8 => row.Uplinks = 8 \div ratio.divisor)
            /\ IsFloorQuotient(row.Max_Radix,
                               spine.line_cards * spine.ports_per_card, row.Uplinks)
            /\ IsFloorQuotient(row.Nodes_per_Leaf,
                               leaf.bandwidth - row.Uplinks * spine.port_speed, 200)
            /\ row.Workload_Ports = leaf.ports - row.Uplinks
            /\ (IsReference /\ spine_idx = 1 /\ leaf_idx = 1 /\ ratio_idx = 1 =>
                  row = [Leaf |-> "7060X5", Spine |-> "7804", Uplinks |-> 8,
                         Workload_Ports |-> 56, Oversubscription |-> "1:1",
                         Max_Radix |-> 18, Nodes_per_Leaf |-> 96])
      ]_vars

C1_Witness ==
    /\ IsReference
    /\ Len(radix_df) >= 1
    /\ radix_df[1].Spine = "7804"
    /\ radix_df[1].Leaf = "7060X5"
    /\ radix_df[1].Oversubscription = "1:1"
    /\ radix_df[1].Nodes_per_Leaf = 96

SpineOrder == << "7804", "7808", "7812", "7816" >>
LeafOrder == << "7060X5", "7060X6" >>
RatioOrder == << "1:1", "2:1", "4:1" >>

RowTriple(row) == << row.Spine, row.Leaf, row.Oversubscription >>

\* C2: once the enumeration has completed there are exactly 24 rows, the row at
\* 0-based position i belongs to spine i div 6, leaf (i div 3) mod 2 and ratio
\* i mod 3 in declaration order, and every triple occurs exactly once.
C2_TwentyFourRowsInNestedOrder ==
    EnumerationCompleted =>
        /\ Len(radix_df) = 24
        /\ \A i \in 0..23 :
              /\ radix_df[i + 1].Spine = SpineOrder[(i \div 6) + 1]
              /\ radix_df[i + 1].Leaf = LeafOrder[((i \div 3) % 2) + 1]
              /\ radix_df[i + 1].Oversubscription = RatioOrder[(i % 3) + 1]
        /\ \A s \in 1..4, l \in 1..2, r \in 1..3 :
              Cardinality({p \in 1..Len(radix_df) :
                  RowTriple(radix_df[p]) = <<SpineOrder[s], LeafOrder[l], RatioOrder[r]>>}) = 1

C2_Witness ==
    /\ IsReference
    /\ pc = "done"
    /\ Len(radix_df) = 24
    /\ RowTriple(radix_df[24]) = <<"7816", "7060X6", "4:1">>

LeafNamed(n) == CHOOSE l \in DOMAIN leaf_configs : leaf_configs[l].name = n

\* C5: in a run over the source's configuration every row of the result frame
\* has 0 < Uplinks <= 8, Workload Ports = leaf ports - Uplinks >= 0,
\* Max Radix >= 0 and Nodes per Leaf >= 0.
C5_RowsWithinRange ==
    IsReference =>
        \A p \in 1..Len(radix_df) :
            LET row == radix_df[p]
            IN  /\ 0 < row.Uplinks
                /\ row.Uplinks <= 8
                /\ row.Workload_Ports = leaf_configs[LeafNamed(row.Leaf)].ports - row.Uplinks
                /\ row.Workload_Ports >= 0
                /\ row.Max_Radix >= 0
                /\ row.Nodes_per_Leaf >= 0

C5_Witness ==
    /\ IsReference
    /\ Len(radix_df) = 24
    /\ radix_df[24].Uplinks = 2
    /\ radix_df[24].Workload_Ports = 62

ZeroUplinkRatios == {r \in DOMAIN Ratios : Ratios[r].divisor > leaf_uplink_ports}
FirstZeroUplinkRatio == CHOOSE r \in ZeroUplinkRatios : \A q \in ZeroUplinkRatios : r <= q

\* C6: when a ratio's divisor exceeds the base uplink port count the run ends
\* in an error at the first such triple: rows exist only for the triples before
\* it, none has zero uplinks, the loops never move past it and nothing is printed.
C6_ZeroUplinksAborts ==
    ZeroUplinkRatios # {} =>
        /\ pc \in {"loop", "error"}
        /\ stdout = <<>>
        /\ spine_idx = 1 /\ leaf_idx = 1 /\ ratio_idx <= FirstZeroUplinkRatio
        /\ Len(radix_df) < FirstZeroUplinkRatio
        /\ \A p \in 1..Len(radix_df) :
              /\ radix_df[p].Uplinks > 0
              /\ RowTriple(radix_df[p]) = <<SpineOrder[1], LeafOrder[1], RatioOrder[p]>>
        /\ (pc = "loop" => Len(radix_df) = ratio_idx - 1 /\ error = NoError)
        /\ (pc = "error" =>
              /\ error = "ZeroDivisionError"
              /\ ratio_idx = FirstZeroUplinkRatio
              /\ Len(radix_df) = FirstZeroUplinkRatio - 1)

C6_Witness ==
    /\ leaf_uplink_ports = 2
    /\ pc = "error"
    /\ error = "ZeroDivisionError"
    /\ ratio_idx = 3
    /\ Len(radix_df) = 2

HasNonPositiveField ==
    \/ \E i \in DOMAIN spine_configs, f \in SpineFields : spine_configs[i][f] <= 0
    \/ \E i \in DOMAIN leaf_configs, f \in LeafFields : leaf_configs[i][f] <= 0

IsPrefix(a, b) == Len(a) <= Len(b) /\ SubSeq(b, 1, Len(a)) = a

\* C10: an iteration that emits adds exactly one row behind the rows already
\* there and changes none of them, an iteration that raises adds none, and the
\* printing steps leave the frame and the catalog as they are.
C10_AppendOnly ==
    [][/\ (pc = "loop" /\ pc' # "error" =>
              Len(radix_df') = Len(radix_df) + 1 /\ IsPrefix(radix_df, radix_df'))
       /\ (pc = "loop" /\ pc' = "error" => radix_df' = radix_df)
       /\ (pc # "loop" => radix_df' = radix_df)
       /\ spine_configs' = spine_configs
       /\ leaf_configs' = leaf_configs
       /\ leaf_uplink_ports' = leaf_uplink_ports
      ]_vars

C10_Witness ==
    /\ pc = "print_head"
    /\ Len(radix_df) = 24
    /\ Len(stdout) = 4
    /\ stdout[1].kind = "table"
    /\ Len(stdout[1].body) = 24

\* C3: calculate_radix(a, b) returns floor(a / b) for positive a and b, and
\* calculate_radix(a, 0) raises instead of returning a value.
C3_RadixIsFloorDivision ==
    call.fn = "calculate_radix" =>
        LET a == call.args[1]
            b == call.args[2]
        IN  /\ (a > 0 /\ b > 0 =>
                  /\ call.result.outcome = "returned"
                  /\ IsFloorQuotient(call.result.value, a, b))
            /\ (b = 0 => call.result.outcome = "raised")

C3_Witness ==
    /\ call.fn = "calculate_radix"
    /\ call.args = <<145, 8>>
    /\ call.result.outcome = "returned"
    /\ call.result.value = 18

\* C4: calculate_nodes_per_leaf(L, N, U) with L >= U >= 0 and N > 0 returns
\* floor((L - U) / N), which is then >= 0; (25600, 200, 800) gives 124.
C4_NodesPerLeafIsFloor ==
    call.fn = "calculate_nodes_per_leaf" =>
        LET L == call.args[1]
            N == call.args[2]
            U == call.args[3]
        IN  /\ (L >= U /\ U >= 0 /\ N > 0 =>
                  /\ call.result.outcome = "returned"
                  /\ IsFloorQuotient(call.result.value, L - U, N)
                  /\ call.result.value >= 0)
            /\ (call.args = <<25600, 200, 800>> => call.result.value = 124)

C4_Witness ==
    /\ call.fn = "calculate_nodes_per_leaf"
    /\ call.args = <<25600, 200, 800>>
    /\ call.result.outcome = "returned"
    /\ call.result.value = 124

\* C7: calculate_nodes_per_leaf(L, N, U) with U > L and N > 0 raises, or
\* returns the one value every such call returns, which is not positive.
C7_NegativeAvailabilityPolicy ==
    (/\ call.fn = "calculate_nodes_per_leaf"
     /\ call.args[3] > call.args[1]
     /\ call.args[2] > 0) =>
        \/ call.result.outcome = "raised"
        \/ /\ first_negative = {call.result.value}
           /\ call.result.value <= 0

====
